---- MODULE Spec2Model ----
(***************************************************************************)
(* A model of the Arkana core contract (src/src/lib.rs): the points ledger *)
(* with its cooldowns, the spin wheel, and the reward lottery.             *)
(*                                                                         *)
(* Execution model (NEAR): every call runs to completion; a panic reverts  *)
(* every storage write of the call, a normal return commits them.  The     *)
(* contract keeps its collections in host storage: a value read from an    *)
(* UnorderedMap is a deserialized copy, and changes to the copy reach      *)
(* storage only through a later insert of that copy.  A TreeMap nested in  *)
(* such a value writes its nodes straight to storage under its own prefix, *)
(* while its header (root, length) travels with the enclosing value.       *)
(*                                                                         *)
(* u64 arithmetic is modelled at a reduced width (values modulo Modulus)   *)
(* so that the wrap-around cases are within reach of the model checker.    *)
(* Rust's +, -, * on integers panic on overflow when the crate is built    *)
(* with overflow checks and wrap otherwise; the build profile is not part  *)
(* of the source, so both builds are modelled (overflow_checks).           *)
(*                                                                         *)
(* Every operation X is modelled by X_err, the panic message the call ends *)
(* with in the current state (OK when it returns), and by the action X,    *)
(* the committed effect of a call that returns.  A call that panics leaves *)
(* no trace in storage: it is a stuttering step.                           *)
(***************************************************************************)
EXTENDS Integers, FiniteSets, Sequences, TLC

\* ------------------------------------------------------------------ bounds

\* u64 is modelled as 0 .. Modulus-1
Modulus == 16
\* the clock runs over the days 0 .. MaxDays
MaxDays == 2
\* the host's random u32 is drawn from 0 .. MaxRandom and two larger values
MaxRandom == 2
\* at most this many calls that create a reward, buy tickets, play the wheel
\* or grant points return
MaxCalls == 3
\* the count of consecutive low payouts is kept up to this value
MaxRun == 257
\* the payout of a play is compared for the seeds 0 .. MaxSeed and some large ones
MaxSeed == 400

\* ------------------------------------------------------- program constants

ONE_DAY == 86400000

\* constructor arguments of `new`
OwnerId == "owner"
DailyClaimPoints == 5
SpinWheelPrice == 2

None == "None"
Users == {"alice", "bob"}
Accounts == {OwnerId, "nft"} \cup Users

\* the block timestamps explored: the start, 1.5 s short of one day, whole days
Times == {0, ONE_DAY - 1500} \cup { d * ONE_DAY : d \in 1 .. MaxDays }
EndTimes == {ONE_DAY, MaxDays * ONE_DAY}

Prices == {1, 2}
BuyAmounts == {0, 1, Modulus \div 2}
GrantAmounts == {3, Modulus - 1}
MemberCandidates == {"nft"}
\* 65667 = 2^16 + 131: a u32 that `as u16` truncates
Randoms == (0 .. MaxRandom) \cup {Modulus \div 2, 65667}

VARIABLES
    overflow_checks,      \* build profile: TRUE = arithmetic overflow panics
    now,                  \* env::block_timestamp_ms()
    users,                \* self.users: account -> User
    rewards,              \* self.rewards: id -> Reward (with the TreeMap header)
    tickets,              \* storage under StorageKey::Tickets{reward_id}: key -> account
    last_reward_id,       \* self.last_reward_id
    membership_contracts, \* self.membership_contracts
    spinwheel_wr,         \* self.spinwheel_wr (u8)
    ret,                  \* the last call that returned, and what it returned
    purchases,            \* history: per reward, the successful purchases in order
    drawn,                \* history: per reward, the winner a finalize_reward returned
    claimed,              \* history: per account, the times of its successful daily claims
    low_run,              \* history: the consecutive payouts <= 5 since the last
                          \* payout > 5, counted up to MaxRun
    calls                 \* history: the number of calls counted against MaxCalls

vars == <<overflow_checks, now, users, rewards, tickets, last_reward_id,
          membership_contracts, spinwheel_wr, ret, purchases, drawn, claimed,
          low_run, calls>>

\* ----------------------------------------------------------------- helpers

OK == "ok"

Result(op, caller, id, arg, val, acct) ==
    [op |-> op, caller |-> caller, id |-> id, arg |-> arg, val |-> val, acct |-> acct]

milli_to_seconds(ms) == ms \div 1000

Max(S) == CHOOSE x \in S : \A y \in S : y <= x

\* ------------------------------------------------------------------- state

Init ==
    /\ overflow_checks \in BOOLEAN
    /\ now = 0
    /\ users = << >>
    /\ rewards = << >>
    /\ tickets = << >>
    /\ last_reward_id = 0
    /\ membership_contracts = {}
    /\ spinwheel_wr = 0
    /\ ret = Result("new", OwnerId, 0, 0, 0, None)
    /\ purchases = << >>
    /\ drawn = << >>
    /\ claimed = [a \in Users |-> << >>]
    /\ low_run = 0
    /\ calls = 0

\* the block timestamp never decreases
Tick ==
    /\ \E t \in Times : t > now /\ now' = t
    /\ UNCHANGED <<overflow_checks, users, rewards, tickets, last_reward_id,
                   membership_contracts, spinwheel_wr, ret, purchases, drawn,
                   claimed, low_run, calls>>

\* ------------------------------------------------------------ account store

\* a registration that does not look for an existing record
register_account_err_unchecked(caller) == OK

register_account_err(caller) ==
    IF caller \in DOMAIN users THEN "Account already registered" ELSE OK

register_account(caller) ==
    /\ register_account_err(caller) = OK
    /\ users' = [a \in DOMAIN users \cup {caller} |->
                   IF a = caller
                   THEN [points |-> 0, last_daily_claim |-> 0, last_free_spinwheel |-> 0]
                   ELSE users[a]]
    /\ ret' = Result("register_account", caller, 0, 0, 0, None)
    /\ UNCHANGED <<overflow_checks, now, rewards, tickets, last_reward_id,
                   membership_contracts, spinwheel_wr, purchases, drawn, claimed,
                   low_run, calls>>

\* view: UserOutput of get_user
get_user(account_id) ==
    [points |-> users[account_id].points,
     last_daily_claim |-> users[account_id].last_daily_claim,
     last_free_spinwheel |-> users[account_id].last_free_spinwheel]

\* ------------------------------------------------------------- daily claim

daily_claim_point_err(caller) ==
    IF caller \notin DOMAIN users THEN "User does not exist"
    ELSE IF now - users[caller].last_daily_claim < ONE_DAY
         THEN "Cannot claim, please wait"
    ELSE IF users[caller].points + DailyClaimPoints >= Modulus /\ overflow_checks
         THEN "attempt to add with overflow"
    ELSE OK

\* the seconds the "Cannot claim, please wait {} seconds" panic reports
daily_claim_point_wait(caller) ==
    milli_to_seconds(ONE_DAY - (now - users[caller].last_daily_claim))

\* a claim that credits the points and forgets to restart the cooldown
daily_claim_point_no_restart(caller) ==
    /\ daily_claim_point_err(caller) = OK
    /\ LET points == (users[caller].points + DailyClaimPoints) % Modulus
       IN  /\ users' = [users EXCEPT ![caller].points = points]
           /\ ret' = Result("daily_claim_point", caller, 0, 0, points, None)
    /\ claimed' = [claimed EXCEPT ![caller] = Append(@, now)]
    /\ UNCHANGED <<overflow_checks, now, rewards, tickets, last_reward_id,
                   membership_contracts, spinwheel_wr, purchases, drawn, low_run,
                   calls>>

daily_claim_point(caller) ==
    /\ daily_claim_point_err(caller) = OK
    /\ LET points == (users[caller].points + DailyClaimPoints) % Modulus
       IN  /\ users' = [users EXCEPT ![caller] =
                          [@ EXCEPT !.points = points, !.last_daily_claim = now]]
           /\ ret' = Result("daily_claim_point", caller, 0, 0, points, None)
    /\ claimed' = [claimed EXCEPT ![caller] = Append(@, now)]
    /\ UNCHANGED <<overflow_checks, now, rewards, tickets, last_reward_id,
                   membership_contracts, spinwheel_wr, purchases, drawn, low_run,
                   calls>>

\* ------------------------------------------------- near_sdk TreeMap<u64, _>

NoKey == -1
Inconsistent == -2

\* TreeMap::insert on a tree whose header says `len` nodes and whose nodes in
\* storage are `store`: [len, store] afterwards
TreeInsert(len, store, k, v) ==
    [len   |-> IF k \in DOMAIN store THEN len ELSE len + 1,
     store |-> [x \in DOMAIN store \cup {k} |-> IF x = k THEN v ELSE store[x]]]

\* a lookup that takes the least key at or above k instead
ceiling_key(len, store, k) ==
    IF k \in DOMAIN store THEN k
    ELSE IF len = 0 THEN NoKey
    ELSE IF Cardinality(DOMAIN store) # len THEN Inconsistent
    ELSE IF \E x \in DOMAIN store : x > k
         THEN CHOOSE x \in DOMAIN store : x > k /\ \A y \in DOMAIN store : y > k => x <= y
         ELSE NoKey

\* TreeMap::floor_key: the key itself when present, else the greatest smaller
\* key; walking the tree reads the nodes the header promises from storage
floor_key(len, store, k) ==
    IF k \in DOMAIN store THEN k
    ELSE IF len = 0 THEN NoKey
    ELSE IF Cardinality(DOMAIN store) # len THEN Inconsistent
    ELSE IF \E x \in DOMAIN store : x < k
         THEN Max({x \in DOMAIN store : x < k})
         ELSE NoKey

\* ------------------------------------------------------------ reward lottery

\* a create_reward open to every caller
create_reward_err_open(caller) == OK

create_reward_err(caller) ==
    IF caller # OwnerId THEN "Unauthorized" ELSE OK

\* a create_reward that stores the reward and forgets to advance the counter
create_reward_same_id(caller, price, ended_at) ==
    /\ create_reward_err(caller) = OK
    /\ LET id == last_reward_id + 1
       IN  /\ rewards' = [i \in DOMAIN rewards \cup {id} |->
                            IF i = id
                            THEN [price |-> price, ended_at |-> ended_at,
                                  total_tickets |-> 0, winner |-> None, tree_len |-> 0]
                            ELSE rewards[i]]
           /\ tickets' = [i \in DOMAIN tickets \cup {id} |->
                            IF i = id /\ i \notin DOMAIN tickets THEN << >> ELSE tickets[i]]
           /\ purchases' = [i \in DOMAIN purchases \cup {id} |->
                            IF i = id /\ i \notin DOMAIN purchases THEN << >>
                            ELSE purchases[i]]
           /\ drawn' = [i \in DOMAIN drawn \cup {id} |->
                            IF i = id /\ i \notin DOMAIN drawn THEN None ELSE drawn[i]]
           /\ ret' = Result("create_reward", caller, id, price, id, None)
    /\ UNCHANGED <<overflow_checks, now, users, membership_contracts, spinwheel_wr,
                   last_reward_id, claimed, low_run>>

create_reward(caller, price, ended_at) ==
    /\ create_reward_err(caller) = OK
    /\ LET id == last_reward_id + 1
       IN  /\ rewards' = [i \in DOMAIN rewards \cup {id} |->
                            IF i = id
                            THEN [price |-> price, ended_at |-> ended_at,
                                  total_tickets |-> 0, winner |-> None, tree_len |-> 0]
                            ELSE rewards[i]]
           /\ tickets' = [i \in DOMAIN tickets \cup {id} |->
                            IF i = id THEN << >> ELSE tickets[i]]
           /\ last_reward_id' = id
           /\ purchases' = [i \in DOMAIN purchases \cup {id} |->
                            IF i = id THEN << >> ELSE purchases[i]]
           /\ drawn' = [i \in DOMAIN drawn \cup {id} |->
                            IF i = id THEN None ELSE drawn[i]]
           /\ ret' = Result("create_reward", caller, id, price, id, None)
    /\ UNCHANGED <<overflow_checks, now, users, membership_contracts, spinwheel_wr,
                   claimed, low_run>>

\* reward.price * amount.0 as the build computes it
ticket_cost(price, amount) == (price * amount) % Modulus

buy_ticket_err(caller, reward_id, amount) ==
    IF reward_id \notin DOMAIN rewards THEN "unwrap on None"
    ELSE IF ~(now < rewards[reward_id].ended_at) THEN "Reward has ended"
    ELSE IF caller \notin DOMAIN users THEN "unwrap on None"
    ELSE IF rewards[reward_id].price * amount >= Modulus /\ overflow_checks
         THEN "attempt to multiply with overflow"
    ELSE IF users[caller].points < ticket_cost(rewards[reward_id].price, amount)
         THEN "Points insufficient"
    ELSE IF Cardinality(DOMAIN tickets[reward_id]) # rewards[reward_id].tree_len
         THEN "inconsistent state"
    ELSE IF rewards[reward_id].total_tickets + amount >= Modulus /\ overflow_checks
         THEN "attempt to add with overflow"
    ELSE OK

buy_ticket(caller, reward_id, amount) ==
    /\ buy_ticket_err(caller, reward_id, amount) = OK
    /\ LET reward == rewards[reward_id]
           tree == TreeInsert(reward.tree_len, tickets[reward_id],
                              reward.total_tickets, caller)
       IN  /\ users' = [users EXCEPT ![caller].points =
                          @ - ticket_cost(reward.price, amount)]
           /\ tickets' = [tickets EXCEPT ![reward_id] = tree.store]
           /\ rewards' = [rewards EXCEPT ![reward_id] =
                            [@ EXCEPT !.total_tickets =
                                          (reward.total_tickets + amount) % Modulus,
                                      !.tree_len = tree.len]]
           /\ purchases' = [purchases EXCEPT ![reward_id] =
                            Append(@, [start |-> reward.total_tickets,
                                       amount |-> amount, buyer |-> caller])]
    /\ ret' = Result("buy_ticket", caller, reward_id, amount, amount, None)
    /\ UNCHANGED <<overflow_checks, now, last_reward_id, membership_contracts,
                   spinwheel_wr, drawn, claimed, low_run>>

\* the ticket index finalize_reward draws
random_ticket(reward_id, random) == random % rewards[reward_id].total_tickets

finalize_reward_err(caller, reward_id, random) ==
    IF reward_id \notin DOMAIN rewards THEN "unwrap on None"
    ELSE IF rewards[reward_id].winner # None THEN "Reward finalized"
    ELSE IF rewards[reward_id].ended_at > now THEN "Reward has not ended"
    ELSE IF rewards[reward_id].total_tickets = 0
         THEN "attempt to calculate the remainder with a divisor of zero"
    ELSE LET key_winner == floor_key(rewards[reward_id].tree_len, tickets[reward_id],
                                     random_ticket(reward_id, random))
         IN  IF key_winner = Inconsistent THEN "inconsistent state"
             ELSE IF key_winner = NoKey THEN "unwrap on None"
             ELSE OK

\* a finalize_reward that also credits one point to the winner
finalize_reward_paying(caller, reward_id, random) ==
    /\ finalize_reward_err(caller, reward_id, random) = OK
    /\ LET random_number == random_ticket(reward_id, random)
           key_winner == floor_key(rewards[reward_id].tree_len, tickets[reward_id],
                                   random_number)
           winner == tickets[reward_id][key_winner]
       IN  /\ tickets' = [tickets EXCEPT ![reward_id] = << >>]
           /\ drawn' = [drawn EXCEPT ![reward_id] = winner]
           /\ users' = [users EXCEPT ![winner].points = (@ + 1) % Modulus]
           /\ ret' = Result("finalize_reward", caller, reward_id, random,
                            random_number, winner)
    /\ UNCHANGED <<overflow_checks, now, rewards, last_reward_id,
                   membership_contracts, spinwheel_wr, purchases, claimed, low_run,
                   calls>>

\* reward.winner is set on the copy that self.rewards.get returned, and the copy
\* is never inserted back; tickets.clear() removes the tree's nodes from storage
finalize_reward(caller, reward_id, random) ==
    /\ finalize_reward_err(caller, reward_id, random) = OK
    /\ LET random_number == random_ticket(reward_id, random)
           key_winner == floor_key(rewards[reward_id].tree_len, tickets[reward_id],
                                   random_number)
           winner == tickets[reward_id][key_winner]
       IN  /\ tickets' = [tickets EXCEPT ![reward_id] = << >>]
           /\ drawn' = [drawn EXCEPT ![reward_id] = winner]
           /\ ret' = Result("finalize_reward", caller, reward_id, random,
                            random_number, winner)
    /\ UNCHANGED <<overflow_checks, now, users, rewards, last_reward_id,
                   membership_contracts, spinwheel_wr, purchases, claimed, low_run,
                   calls>>

\* view: RewardOutput of get_reward
get_reward(reward_id) ==
    [price |-> rewards[reward_id].price,
     ended_at |-> rewards[reward_id].ended_at,
     total_tickets |-> rewards[reward_id].total_tickets,
     winner |-> rewards[reward_id].winner]

\* -------------------------------------------------------------- spin wheel

points_table == <<1, 3, 7, 9, 12, 15>>

weights(wr) ==
    <<50, 80, 70, 20 + (wr * 3) \div 10, 10 + (wr * 2) \div 10, 2 + (wr * 1) \div 10>>

\* cumulative_weights[i] = weights[i] + cumulative_weights[i - 1]
cumulative_weights(wr) ==
    LET w == weights(wr)
        c1 == w[1]
        c2 == w[2] + c1
        c3 == w[3] + c2
        c4 == w[4] + c3
        c5 == w[5] + c4
        c6 == w[6] + c5
    IN  <<c1, c2, c3, c4, c5, c6>>

\* a scan that wants the cumulative weight strictly above the drawn number
spin_result_strict(wr, random) ==
    LET cw == cumulative_weights(wr)
        total_weights == cw[6]
        random_number == (random % 65536) % total_weights
        hits == {i \in 1 .. 6 : cw[i] > random_number}
    IN  IF hits = {} THEN 0
        ELSE points_table[CHOOSE i \in hits : \A j \in hits : i <= j]

\* the payout of one play: the entry at the first index whose cumulative
\* weight is >= the drawn number; `result` stays 0 when there is none
spin_result(wr, random) ==
    LET cw == cumulative_weights(wr)
        total_weights == cw[6]
        random_number == (random % 65536) % total_weights
        hits == {i \in 1 .. 6 : cw[i] >= random_number}
    IN  IF hits = {} THEN 0
        ELSE points_table[CHOOSE i \in hits : \A j \in hits : i <= j]

\* the balance after the price of a paid play is taken
spin_paid(caller, is_free) ==
    IF is_free THEN users[caller].points ELSE users[caller].points - SpinWheelPrice

play_spin_wheel_err(caller, is_free, random) ==
    IF caller \notin DOMAIN users THEN "unwrap on None"
    ELSE IF is_free /\ now - users[caller].last_free_spinwheel < ONE_DAY
         THEN "Cannot play spin wheel for free, please wait"
    ELSE IF ~is_free /\ users[caller].points < SpinWheelPrice
         THEN "Cannot play, user points insufficient"
    ELSE IF /\ spin_result(spinwheel_wr, random) <= 5
            /\ spinwheel_wr + 1 >= 256
            /\ overflow_checks
         THEN "attempt to add with overflow"
    ELSE IF /\ spin_paid(caller, is_free) + spin_result(spinwheel_wr, random) >= Modulus
            /\ overflow_checks
         THEN "attempt to add with overflow"
    ELSE OK

play_spin_wheel(caller, is_free, random) ==
    /\ play_spin_wheel_err(caller, is_free, random) = OK
    /\ LET result == spin_result(spinwheel_wr, random)
       IN  /\ spinwheel_wr' = IF result > 5 THEN 0 ELSE (spinwheel_wr + 1) % 256
           /\ low_run' = IF result > 5 THEN 0
                         ELSE IF low_run < MaxRun THEN low_run + 1 ELSE low_run
           /\ users' = [users EXCEPT ![caller] =
                          [@ EXCEPT !.points = (spin_paid(caller, is_free) + result) % Modulus,
                                    !.last_free_spinwheel = IF is_free THEN now ELSE @]]
           /\ ret' = Result("play_spin_wheel", caller, 0, IF is_free THEN 1 ELSE 0,
                            result, None)
    /\ UNCHANGED <<overflow_checks, now, rewards, tickets, last_reward_id,
                   membership_contracts, purchases, drawn, claimed>>

\* ---------------------------------------------------------- access control

add_membership_nft_contract_err(caller) ==
    IF caller # OwnerId THEN "Unauthorized" ELSE OK

add_membership_nft_contract(caller, contract_id) ==
    /\ add_membership_nft_contract_err(caller) = OK
    /\ membership_contracts' = membership_contracts \cup {contract_id}
    /\ ret' = Result("add_membership_nft_contract", caller, 0, 0, 0, contract_id)
    /\ UNCHANGED <<overflow_checks, now, users, rewards, tickets, last_reward_id,
                   spinwheel_wr, purchases, drawn, claimed, low_run, calls>>

remove_membership_nft_contract_err(caller) ==
    IF caller # OwnerId THEN "Unauthorized" ELSE OK

remove_membership_nft_contract(caller, contract_id) ==
    /\ remove_membership_nft_contract_err(caller) = OK
    /\ membership_contracts' = membership_contracts \ {contract_id}
    /\ ret' = Result("remove_membership_nft_contract", caller, 0, 0, 0, contract_id)
    /\ UNCHANGED <<overflow_checks, now, users, rewards, tickets, last_reward_id,
                   spinwheel_wr, purchases, drawn, claimed, low_run, calls>>

generate_points_err(caller, account_id, points) ==
    IF caller \notin membership_contracts THEN "Unauthorized"
    ELSE IF account_id \notin DOMAIN users THEN "unwrap on None"
    ELSE IF users[account_id].points + points >= Modulus /\ overflow_checks
         THEN "attempt to add with overflow"
    ELSE OK

generate_points(caller, account_id, points) ==
    /\ generate_points_err(caller, account_id, points) = OK
    /\ LET sum == (users[account_id].points + points) % Modulus
       IN  /\ users' = [users EXCEPT ![account_id].points = sum]
           /\ ret' = Result("generate_points", caller, 0, points, sum, account_id)
    /\ UNCHANGED <<overflow_checks, now, rewards, tickets, last_reward_id,
                   membership_contracts, spinwheel_wr, purchases, drawn, claimed,
                   low_run>>

\* ------------------------------------------------------------ specification

RewardIds == 1 .. MaxCalls

\* a call counted against MaxCalls (create_reward, buy_ticket, play_spin_wheel
\* and generate_points leave the count to the specification that uses them)
Counted == calls < MaxCalls /\ calls' = calls + 1

Next ==
    \/ Tick
    \/ \E c \in Users : register_account(c)
    \/ \E c \in Users : daily_claim_point(c)
    \/ Counted /\ \E c \in Users, f \in BOOLEAN, r \in Randoms : play_spin_wheel(c, f, r)
    \/ Counted /\ \E c \in Accounts, p \in Prices, e \in EndTimes : create_reward(c, p, e)
    \/ Counted /\ \E c \in Users, i \in RewardIds, n \in BuyAmounts : buy_ticket(c, i, n)
    \/ \E c \in Accounts, i \in RewardIds, r \in Randoms : finalize_reward(c, i, r)
    \/ \E c \in Accounts, m \in MemberCandidates : add_membership_nft_contract(c, m)
    \/ \E c \in Accounts, m \in MemberCandidates : remove_membership_nft_contract(c, m)
    \/ Counted /\ \E c \in Accounts, a \in Users, n \in GrantAmounts : generate_points(c, a, n)

Spec == Init /\ [][Next]_vars

\* the lottery alone; a free reward (price 0) lets accounts without points buy
LotteryPrices == {0, 2}

NextLottery ==
    \/ Tick
    \/ \E c \in Users : register_account(c)
    \/ Counted /\ \E c \in Accounts, p \in LotteryPrices, e \in EndTimes : create_reward(c, p, e)
    \/ Counted /\ \E c \in Users, i \in RewardIds, n \in BuyAmounts : buy_ticket(c, i, n)
    \/ \E c \in Accounts, i \in RewardIds, r \in Randoms : finalize_reward(c, i, r)

SpecLottery == Init /\ [][NextLottery]_vars

\* every operation, each with one choice of its numeric arguments
NextNarrow ==
    \/ Tick
    \/ \E c \in Users : register_account(c)
    \/ \E c \in Users : daily_claim_point(c)
    \/ Counted /\ \E c \in Users, f \in BOOLEAN : play_spin_wheel(c, f, 0)
    \/ Counted /\ \E c \in Accounts : create_reward(c, 2, MaxDays * ONE_DAY)
    \/ Counted /\ \E c \in Users, i \in RewardIds : buy_ticket(c, i, 1)
    \/ \E c \in Accounts, i \in RewardIds : finalize_reward(c, i, 0)
    \/ \E c \in Accounts, m \in MemberCandidates : add_membership_nft_contract(c, m)
    \/ \E c \in Accounts, m \in MemberCandidates : remove_membership_nft_contract(c, m)
    \/ Counted /\ \E c \in Accounts, a \in Users : generate_points(c, a, Modulus - 1)

SpecNarrow == Init /\ [][NextNarrow]_vars

\* the wheel alone, played by one account without a limit on the number of
\* plays, so that the streak counter runs through all of 0 .. 255
WheelPlayers == {"alice"}
\* seeds that draw the payouts 1, 3 and 7 at every streak value; 65667 does so
\* only through the truncation to u16
WheelRandoms == {0, 60, 65667}

NextWheel ==
    \/ Tick
    \/ \E c \in WheelPlayers : register_account(c)
    \/ UNCHANGED calls /\ \E c \in WheelPlayers, f \in BOOLEAN, r \in WheelRandoms :
                              play_spin_wheel(c, f, r)

SpecWheel == Init /\ [][NextWheel]_vars

\* the draw of one play taken alone: the streak counter starts at any of its
\* values (SpecWheel reaches each of them by plays) and one seed is drawn
InitPayout ==
    /\ overflow_checks \in BOOLEAN
    /\ now = 0
    /\ users = << >>
    /\ rewards = << >>
    /\ tickets = << >>
    /\ last_reward_id = 0
    /\ membership_contracts = {}
    /\ spinwheel_wr \in 0 .. 255
    /\ ret = Result("new", OwnerId, 0, 0, 0, None)
    /\ purchases = << >>
    /\ drawn = << >>
    /\ claimed = [a \in Users |-> << >>]
    /\ low_run = 0
    /\ calls = 0

\* the seeds drawn: every remainder of every total weight, and u32 values at
\* and above 2^16
PayoutSeeds == (0 .. MaxSeed) \cup {65535, 65536, 65667, 2147483647}

\* the payout play_spin_wheel computes from the streak counter and the seed
Draw(seed) ==
    /\ ret.op = "new"
    /\ ret' = Result("spin_result", None, 0, seed, spin_result(spinwheel_wr, seed), None)
    /\ UNCHANGED <<overflow_checks, now, users, rewards, tickets, last_reward_id,
                   membership_contracts, spinwheel_wr, purchases, drawn, claimed,
                   low_run, calls>>

NextPayout == \E seed \in PayoutSeeds : Draw(seed)

SpecPayout == InitPayout /\ [][NextPayout]_vars

\* the build with overflow checks alone
InitChecked == Init /\ overflow_checks = TRUE
SpecChecked == InitChecked /\ [][Next]_vars
SpecLotteryChecked == InitChecked /\ [][NextLottery]_vars

\* ------------------------------------------------------------------ claims

\* the stored winner of a reward: Some(w) is w, None is None
StoredWinner(id) == get_reward(id).winner

\* C1: for every reward the winner get_reward reports is None before a
\* finalize_reward of it returned, and is the returned account in the state
\* the call leaves and in every later state.
C1_WinnerStoredOnceFinalized ==
    \A id \in DOMAIN rewards : StoredWinner(id) = drawn[id]

\* C2: once finalize_reward(id) has returned, every further finalize_reward(id),
\* by any caller and with any random seed, fails on the "Reward finalized"
\* assertion (a failing call commits nothing).
C2_SecondFinalizeAlreadyFinalized ==
    \A id \in DOMAIN rewards :
        drawn[id] # None =>
            \A c \in Accounts, r \in Randoms :
                finalize_reward_err(c, id, r) = "Reward finalized"

\* C3: no balance ever goes below zero (a u64 balance that would underflow),
\* and a buy_ticket on an open reward, or a paid play_spin_wheel, whose debit
\* (price * amount, resp. spin_wheel_price) exceeds the caller's balance fails
\* with the insufficient-points panic.
C3_DebitNeverExceedsBalance ==
    /\ \A a \in DOMAIN users : users[a].points >= 0
    /\ \A a \in DOMAIN users, i \in DOMAIN rewards, n \in BuyAmounts :
          (now < rewards[i].ended_at /\ rewards[i].price * n > users[a].points)
              => buy_ticket_err(a, i, n) = "Points insufficient"
    /\ \A a \in DOMAIN users, r \in Randoms :
          SpinWheelPrice > users[a].points
              => play_spin_wheel_err(a, FALSE, r) = "Cannot play, user points insufficient"

\* a step in which a buy_ticket on reward i returned
BuyStep(i) ==
    /\ i \in DOMAIN purchases
    /\ Len(purchases'[i]) = Len(purchases[i]) + 1

LastPurchase(i) == purchases[i][Len(purchases[i])]

\* C4: a buy_ticket that returns takes exactly price * amount (the product in
\* the integers) from the buyer, who had at least that much, and adds exactly
\* amount to the reward's total_tickets.
C4_BuyChargesExactProduct ==
    [][\A i \in RewardIds :
          BuyStep(i) =>
              LET p == LastPurchase(i)'
                  product == rewards[i].price * p.amount
              IN  /\ users[p.buyer].points >= product
                  /\ users'[p.buyer].points = users[p.buyer].points - product
                  /\ rewards'[i].total_tickets = rewards[i].total_tickets + p.amount]_vars

\* the range a recorded key stands for: up to the next key, or to total_tickets
RangeEnd(id, k) ==
    LET above == {j \in DOMAIN tickets[id] : j > k}
    IN  IF above = {} THEN rewards[id].total_tickets
        ELSE CHOOSE j \in above : \A x \in above : j <= x

RangeOf(id, k) == k .. (RangeEnd(id, k) - 1)

\* C5: for every reward whose stored winner is None the recorded ranges cover
\* exactly [0, total_tickets), without gap and without overlap.
C5_RangesCoverTickets ==
    \A id \in DOMAIN rewards :
        StoredWinner(id) = None =>
            /\ UNION {RangeOf(id, k) : k \in DOMAIN tickets[id]}
                   = 0 .. (rewards[id].total_tickets - 1)
            /\ \A k1, k2 \in DOMAIN tickets[id] :
                   k1 # k2 => RangeOf(id, k1) \cap RangeOf(id, k2) = {}

\* C6: when finalize_reward returns, with drawn index r = random mod
\* total_tickets, the returned winner is the buyer of a purchase whose range
\* contains r: start <= r < start + amount.
C6_WinnerOwnsDrawnTicket ==
    ret.op = "finalize_reward" =>
        LET r == ret.arg % rewards[ret.id].total_tickets
        IN  \E k \in 1 .. Len(purchases[ret.id]) :
                LET p == purchases[ret.id][k]
                IN  /\ p.buyer = ret.acct
                    /\ p.start <= r
                    /\ r < p.start + p.amount

\* a draw that falls strictly inside the second purchase, bought by another
\* account than the first
C6_Witness ==
    /\ ret.op = "finalize_reward"
    /\ Len(purchases[ret.id]) >= 2
    /\ purchases[ret.id][2].buyer = ret.acct
    /\ purchases[ret.id][1].buyer # ret.acct
    /\ ret.arg % rewards[ret.id].total_tickets > purchases[ret.id][2].start

\* the failures the contract raises itself (its panic!, assert! and expect)
ContractFailures ==
    {"Unauthorized", "Reward has ended", "Points insufficient", "Reward finalized",
     "Reward has not ended", "Account already registered", "User does not exist",
     "Cannot claim, please wait", "Cannot play spin wheel for free, please wait",
     "Cannot play, user points insufficient"}

\* C7: finalize_reward on an ended, unresolved reward with no ticket sold
\* fails with a failure the contract raises for that case.
C7_ZeroTicketsDesignedFailure ==
    \A id \in DOMAIN rewards, c \in Accounts, r \in Randoms :
        (/\ StoredWinner(id) = None
         /\ now >= rewards[id].ended_at
         /\ rewards[id].total_tickets = 0)
            => finalize_reward_err(c, id, r) \in ContractFailures

\* C8: buy_ticket fails with "Reward has ended" once now >= ended_at,
\* finalize_reward fails with "Reward has not ended" while now < ended_at, a
\* reward's total_tickets never decreases and never changes once now >=
\* ended_at, and no purchase is recorded after a finalize_reward returned.
C8_TimeGates ==
    [][\A i \in DOMAIN rewards :
          /\ now >= rewards[i].ended_at =>
                \A c \in Users, n \in BuyAmounts :
                    buy_ticket_err(c, i, n) = "Reward has ended"
          /\ now < rewards[i].ended_at =>
                \A c \in Accounts, r \in Randoms :
                    finalize_reward_err(c, i, r) = "Reward has not ended"
          /\ rewards'[i].total_tickets >= rewards[i].total_tickets
          /\ now >= rewards[i].ended_at =>
                rewards'[i].total_tickets = rewards[i].total_tickets
          /\ drawn[i] # None => purchases'[i] = purchases[i]]_vars

\* the time the cooldown of account a counts from: its last successful claim
LastClaim(a) == IF claimed[a] = << >> THEN 0 ELSE claimed[a][Len(claimed[a])]

\* C9: any two successful daily claims of an account are at least ONE_DAY
\* apart; while less than ONE_DAY has passed since the last one (since 0 when
\* there is none) a claim fails with the cooldown panic, which reports
\* (ONE_DAY - elapsed) / 1000 seconds.
C9_ClaimsOneDayApart ==
    \A a \in Users :
        /\ \A i, j \in 1 .. Len(claimed[a]) :
              i < j => claimed[a][j] - claimed[a][i] >= ONE_DAY
        /\ (a \in DOMAIN users /\ now - LastClaim(a) < ONE_DAY) =>
              /\ daily_claim_point_err(a) = "Cannot claim, please wait"
              /\ daily_claim_point_wait(a) = (ONE_DAY - (now - LastClaim(a))) \div 1000

\* an account that claimed twice, the second claim just made
C9_Witness ==
    \E a \in Users :
        /\ Len(claimed[a]) = 2
        /\ claimed[a][2] = now
        /\ daily_claim_point_err(a) = "Cannot claim, please wait"

\* a step in which a daily_claim_point of account a returned
ClaimStep(a) == Len(claimed'[a]) = Len(claimed[a]) + 1

FreshUser == [points |-> 0, last_daily_claim |-> 0, last_free_spinwheel |-> 0]

\* C10: a daily_claim_point that returns adds exactly daily_claim_points to
\* the caller's balance, sets last_daily_claim to now, returns the new balance
\* and changes nothing else; the first claim of a fresh account succeeds
\* whenever now >= ONE_DAY.
C10_ClaimEffect ==
    [][/\ \A a \in Users :
            ClaimStep(a) =>
                /\ users'[a].points = users[a].points + DailyClaimPoints
                /\ users'[a].last_daily_claim = now
                /\ users'[a].last_free_spinwheel = users[a].last_free_spinwheel
                /\ ret'.val = users'[a].points
                /\ DOMAIN users' = DOMAIN users
                /\ \A b \in DOMAIN users \ {a} : users'[b] = users[b]
                /\ UNCHANGED <<rewards, tickets, last_reward_id,
                               membership_contracts, spinwheel_wr>>
       /\ \A a \in DOMAIN users :
            (users[a] = FreshUser /\ now >= ONE_DAY) => daily_claim_point_err(a) = OK]_vars
\* the three operations reserved to the owner
OwnerOps == {"create_reward", "add_membership_nft_contract",
             "remove_membership_nft_contract"}

\* C11: create_reward, add_membership_nft_contract and
\* remove_membership_nft_contract called by any account but the owner fail
\* with "Unauthorized", and every step that changes the rewards' ids, the
\* reward-id counter or the membership allowlist is a returning call of one of
\* the three by the owner.
C11_OwnerOnly ==
    [][/\ \A c \in Accounts \ {OwnerId} :
            /\ create_reward_err(c) = "Unauthorized"
            /\ add_membership_nft_contract_err(c) = "Unauthorized"
            /\ remove_membership_nft_contract_err(c) = "Unauthorized"
       /\ (\/ last_reward_id' # last_reward_id
           \/ DOMAIN rewards' # DOMAIN rewards
           \/ membership_contracts' # membership_contracts)
              => (ret'.op \in OwnerOps /\ ret'.caller = OwnerId)]_vars

\* the owner has created a reward and put a contract on the allowlist
C11_Witness ==
    /\ last_reward_id > 0
    /\ membership_contracts # {}
    /\ ret.op \in OwnerOps
    /\ ret.caller = OwnerId

\* C12: generate_points by a caller that is not on the allowlist (never added,
\* or removed again) fails with "Unauthorized"; a generate_points that returns
\* was called by a member, adds exactly the given amount to the target's
\* balance, returns the new balance and changes no other account.
C12_GrantByMemberOnly ==
    [][/\ \A c \in Accounts \ membership_contracts, a \in Users, n \in GrantAmounts :
            generate_points_err(c, a, n) = "Unauthorized"
       /\ \A c \in Accounts, a \in Users, n \in GrantAmounts :
            generate_points(c, a, n) =>
                /\ c \in membership_contracts
                /\ users'[a].points = users[a].points + n
                /\ ret'.val = users'[a].points
                /\ \A b \in DOMAIN users \ {a} : users'[b] = users[b]]_vars

\* C13: the rewards are those with ids 1 .. counter (none and 0 at the
\* start); the counter never decreases; a create_reward that returns leaves
\* every existing reward and its tickets as they were; a step that advances
\* the counter is a create_reward that returns counter + 1 and adds a reward
\* with total_tickets 0, winner None and no ticket entry.
C13_RewardIds ==
    [][/\ DOMAIN rewards = 1 .. last_reward_id
       /\ DOMAIN rewards' = 1 .. last_reward_id'
       /\ last_reward_id' >= last_reward_id
       /\ \A c \in Accounts, p \in Prices \cup LotteryPrices, e \in EndTimes :
            create_reward(c, p, e) =>
                /\ last_reward_id' = last_reward_id + 1
                /\ \A i \in DOMAIN rewards :
                       rewards'[i] = rewards[i] /\ tickets'[i] = tickets[i]
       /\ last_reward_id' # last_reward_id =>
            LET id == last_reward_id'
            IN  /\ id = last_reward_id + 1
                /\ ret'.op = "create_reward"
                /\ ret'.val = id
                /\ rewards'[id].total_tickets = 0
                /\ rewards'[id].winner = None
                /\ rewards'[id].tree_len = 0
                /\ tickets'[id] = << >>]_vars

\* a second reward was just created while the first holds sold tickets
C13_Witness ==
    /\ ret.op = "create_reward"
    /\ ret.val = 2
    /\ last_reward_id = 2
    /\ rewards[1].total_tickets > 0
    /\ tickets[1] # << >>

\* C14: register_account fails with "Account already registered" exactly for
\* the accounts that have a User record; a step that adds a record is a
\* register_account of that account and the record is all zero; a
\* register_account changes no existing record; no record is ever deleted.
C14_RegisterOnce ==
    [][/\ \A a \in Users :
            register_account_err(a) =
                IF a \in DOMAIN users THEN "Account already registered" ELSE OK
       /\ DOMAIN users \subseteq DOMAIN users'
       /\ \A a \in DOMAIN users' \ DOMAIN users :
            /\ get_user(a)' = FreshUser
            /\ ret'.op = "register_account"
            /\ ret'.caller = a
       /\ ret'.op = "register_account" =>
            \A b \in DOMAIN users : users'[b] = users[b]]_vars

\* an account registers while another already holds points, which it keeps
C14_Witness ==
    \E a \in DOMAIN users :
        /\ users[a].points > 0
        /\ ret.op = "register_account"
        /\ ret.caller # a
        /\ register_account_err(a) = "Account already registered"
        /\ register_account_err(ret.caller) = "Account already registered"

\* the play passes the cooldown check (free) or the balance check (paid)
SpinAdmitted(c, f) ==
    /\ c \in DOMAIN users
    /\ f => now - users[c].last_free_spinwheel >= ONE_DAY
    /\ ~f => users[c].points >= SpinWheelPrice

\* C15: when the streak counter is 255, a play that passes its checks and draws
\* a payout <= 5 returns (unless the balance itself would overflow), credits
\* the payout and leaves the counter at 255; the counter falls to 0 only by a
\* payout > 5.
C15_StreakSaturates ==
    [][/\ spinwheel_wr = 255 =>
            \A c \in Users, f \in BOOLEAN, r \in WheelRandoms :
                /\ (/\ SpinAdmitted(c, f)
                    /\ spin_result(spinwheel_wr, r) <= 5
                    /\ spin_paid(c, f) + spin_result(spinwheel_wr, r) < Modulus)
                       => play_spin_wheel_err(c, f, r) = OK
                /\ (play_spin_wheel(c, f, r) /\ spin_result(spinwheel_wr, r) <= 5)
                       => spinwheel_wr' = 255
       /\ (spinwheel_wr > 0 /\ spinwheel_wr' = 0) => ret'.val > 5]_vars

\* the seeds the plays of the specifications draw
SpinRandoms == Randoms \cup WheelRandoms

\* C16: a free play is refused with the cooldown panic while less than ONE_DAY
\* has passed since last_free_spinwheel; a free play that returns sets
\* last_free_spinwheel to now and adds exactly the payout to the balance; a
\* paid play that returns changes the balance by exactly payout -
\* spin_wheel_price and leaves last_free_spinwheel; neither changes
\* last_daily_claim; last_free_spinwheel changes by the account's own free play
\* alone (so two free plays of an account are at least ONE_DAY apart).
C16_SpinEffect ==
    [][/\ \A c \in DOMAIN users, r \in SpinRandoms :
            now - users[c].last_free_spinwheel < ONE_DAY
                => play_spin_wheel_err(c, TRUE, r)
                       = "Cannot play spin wheel for free, please wait"
       /\ \A c \in Users, r \in SpinRandoms :
            play_spin_wheel(c, TRUE, r) =>
                /\ now - users[c].last_free_spinwheel >= ONE_DAY
                /\ users'[c].last_free_spinwheel = now
                /\ users'[c].points = users[c].points + ret'.val
                /\ users'[c].last_daily_claim = users[c].last_daily_claim
       /\ \A c \in Users, r \in SpinRandoms :
            play_spin_wheel(c, FALSE, r) =>
                /\ users'[c].last_free_spinwheel = users[c].last_free_spinwheel
                /\ users'[c].points = users[c].points + ret'.val - SpinWheelPrice
                /\ users'[c].last_daily_claim = users[c].last_daily_claim
       /\ \A a \in DOMAIN users :
            users'[a].last_free_spinwheel # users[a].last_free_spinwheel
                => /\ ret'.op = "play_spin_wheel"
                   /\ ret'.caller = a
                   /\ ret'.arg = 1]_vars

\* the wheel as the claim describes it: weights, cumulative weight of the first
\* i entries, total weight
C17_Weights(wr) ==
    <<50, 80, 70, 20 + (wr * 3) \div 10, 10 + (wr * 2) \div 10, 2 + wr \div 10>>

C17_Cumulative(wr, i) ==
    LET w == C17_Weights(wr)
    IN  (IF i >= 1 THEN w[1] ELSE 0) + (IF i >= 2 THEN w[2] ELSE 0)
      + (IF i >= 3 THEN w[3] ELSE 0) + (IF i >= 4 THEN w[4] ELSE 0)
      + (IF i >= 5 THEN w[5] ELSE 0) + (IF i >= 6 THEN w[6] ELSE 0)

C17_Total(wr) == C17_Cumulative(wr, 6)

C17_Table == {1, 3, 7, 9, 12, 15}

\* the first index whose cumulative weight is >= r exists, and the payout is
\* the table's entry there
C17_PayoutIs(wr, r, payout) ==
    \E i \in 1 .. 6 :
        /\ C17_Cumulative(wr, i) >= r
        /\ \A j \in 1 .. (i - 1) : C17_Cumulative(wr, j) < r
        /\ payout = <<1, 3, 7, 9, 12, 15>>[i]

\* C17 as stated: at every streak value and for every seed the payout of a
\* play is the entry at the first index whose cumulative weight is >= r, with
\* r = seed mod total weight; it is one of the six table values.
C17_PayoutByRemainder ==
    ret.op = "spin_result" =>
        /\ C17_PayoutIs(spinwheel_wr, ret.arg % C17_Total(spinwheel_wr), ret.val)
        /\ ret.val \in C17_Table

\* C17 amended: the same with r = (seed mod 2^16) mod total weight.
C17_PayoutByTruncatedRemainder ==
    ret.op = "spin_result" =>
        /\ C17_PayoutIs(spinwheel_wr, (ret.arg % 65536) % C17_Total(spinwheel_wr),
                        ret.val)
        /\ ret.val \in C17_Table

\* at streak 255 a seed above 2^16 drew the payout of its low 16 bits, which is
\* not the payout of its remainder by the total weight
C17_Witness ==
    /\ ret.op = "spin_result"
    /\ spinwheel_wr = 255
    /\ ret.arg = 65667
    /\ C17_PayoutIs(255, (65667 % 65536) % C17_Total(255), ret.val)
    /\ ~C17_PayoutIs(255, 65667 % C17_Total(255), ret.val)

\* C18: the streak counter is one value for all accounts: while it is below
\* 255 it equals the number of consecutive payouts <= 5 since the last payout
\* > 5, whoever played; a play that returns at a counter below 255 adds 1 to
\* it on a payout <= 5 and sets it to 0 on a payout > 5; no other step changes
\* it.
C18_StreakCounts ==
    [][/\ spinwheel_wr < 255 => spinwheel_wr = low_run
       /\ \A c \in Users, f \in BOOLEAN, r \in SpinRandoms :
            (play_spin_wheel(c, f, r) /\ spinwheel_wr < 255) =>
                spinwheel_wr' = IF ret'.val <= 5 THEN spinwheel_wr + 1 ELSE 0
       /\ spinwheel_wr' # spinwheel_wr => ret'.op = "play_spin_wheel"]_vars

\* C19: a buy_ticket that returns adds exactly one ticket entry, at the key
\* total_tickets had before the purchase, and that key is above every key
\* already recorded for the reward: no recorded entry is overwritten, and the
\* reward has as many entries as purchases, whatever the amounts (0 included).
C19_BuyAppendsNewKey ==
    [][\A i \in RewardIds :
          BuyStep(i) =>
              LET k == rewards[i].total_tickets
              IN  /\ \A x \in DOMAIN tickets[i] : k > x
                  /\ DOMAIN tickets'[i] = DOMAIN tickets[i] \cup {k}
                  /\ \A x \in DOMAIN tickets[i] : tickets'[i][x] = tickets[i][x]
                  /\ Cardinality(DOMAIN tickets'[i]) = Len(purchases'[i])]_vars

\* the operations that change the balance of their caller
BalanceOps == {"daily_claim_point", "play_spin_wheel", "buy_ticket"}

\* C20: a step that changes the balance of an account is a returning
\* daily_claim_point, play_spin_wheel or buy_ticket called by that account, or
\* a returning generate_points that names it as target.
C20_BalanceFrame ==
    [][\A a \in DOMAIN users :
          users'[a].points # users[a].points =>
              \/ ret'.op \in BalanceOps /\ ret'.caller = a
              \/ ret'.op = "generate_points" /\ ret'.acct = a]_vars

\* a finalize_reward has just returned a winner who holds points, while other
\* accounts are registered and a contract is on the allowlist
C20_Witness ==
    /\ ret.op = "finalize_reward"
    /\ ret.acct \in DOMAIN users
    /\ users[ret.acct].points > 0
    /\ drawn[ret.id] = ret.acct
====
